---------------------------- MODULE Spec2Model ----------------------------
(***************************************************************************)
(* State-machine model of the three MCP dashboard components:              *)
(*   ServerManagement  (src/components/mcp-client/ServerManagement.tsx)    *)
(*   ToolsExplorer     (src/components/mcp-client/ToolsExplorer.tsx)       *)
(*   ServerFormModal   (src/components/mcp-client/ServerFormModal.tsx)     *)
(*                                                                         *)
(* JavaScript strings that the code case-converts or searches are modelled *)
(* as sequences of one-character strings, so that toUpperCase, toLowerCase *)
(* and includes are computed character by character.  Only ASCII letters   *)
(* are case-mapped.  Texts that the code only passes on (messages) are     *)
(* plain strings, and a template literal is the sequence of its parts.     *)
(***************************************************************************)
EXTENDS Integers, Sequences, FiniteSets, TLC

(***************************************************************************)
(* Bounds of the model.                                                    *)
(***************************************************************************)
\* performAction calls that may be outstanding at once (the code has no limit)
MaxCalls == 2
\* notifications visible at once (react-hot-toast removes them after a while)
MaxToasts == 2

(***************************************************************************)
(* JavaScript strings.                                                     *)
(***************************************************************************)
LowerLetters == <<"a", "b", "c", "d", "e", "f", "g", "h", "i", "j", "k", "l", "m",
                  "n", "o", "p", "q", "r", "s", "t", "u", "v", "w", "x", "y", "z">>
UpperLetters == <<"A", "B", "C", "D", "E", "F", "G", "H", "I", "J", "K", "L", "M",
                  "N", "O", "P", "Q", "R", "S", "T", "U", "V", "W", "X", "Y", "Z">>

\* the upper-case letter of each lower-case letter, and the reverse
UpperOf ==
    [c \in {LowerLetters[i] : i \in 1..Len(LowerLetters)} |->
        UpperLetters[CHOOSE i \in 1..Len(LowerLetters) : LowerLetters[i] = c]]

LowerOf ==
    [c \in {UpperLetters[i] : i \in 1..Len(UpperLetters)} |->
        LowerLetters[CHOOSE i \in 1..Len(UpperLetters) : UpperLetters[i] = c]]

toUpperChar(c) == IF c \in DOMAIN UpperOf THEN UpperOf[c] ELSE c

toLowerChar(c) == IF c \in DOMAIN LowerOf THEN LowerOf[c] ELSE c

\* String.prototype.toUpperCase
toUpperCase(s) == [i \in 1..Len(s) |-> toUpperChar(s[i])]

\* String.prototype.toLowerCase
toLowerCase(s) == [i \in 1..Len(s) |-> toLowerChar(s[i])]

\* String.prototype.includes: needle occurs in hay as a contiguous run
includes(hay, needle) ==
    \E k \in 0..(Len(hay) - Len(needle)) :
        \A i \in 1..Len(needle) : hay[k + i] = needle[i]

S_CONNECTED    == <<"C", "O", "N", "N", "E", "C", "T", "E", "D">>
S_DISCONNECTED == <<"D", "I", "S", "C", "O", "N", "N", "E", "C", "T", "E", "D">>
S_FAILED       == <<"F", "A", "I", "L", "E", "D">>
S_connected    == <<"c", "o", "n", "n", "e", "c", "t", "e", "d">>
S_Connected    == <<"C", "o", "n", "n", "e", "c", "t", "e", "d">>
S_disconnected == <<"d", "i", "s", "c", "o", "n", "n", "e", "c", "t", "e", "d">>
S_failed       == <<"f", "a", "i", "l", "e", "d">>
S_Failed       == <<"F", "a", "i", "l", "e", "d">>
S_unknown      == <<"u", "n", "k", "n", "o", "w", "n">>
S_CONNECTING   == <<"C", "O", "N", "N", "E", "C", "T", "I", "N", "G">>
S_empty        == <<>>

\* An absent value of an optional string (undefined or null): a one-element
\* sequence whose element is no character, so that it equals no string.
undefined == <<"<undefined>">>

\* JavaScript truthiness of an optional string: neither absent nor ""
Truthy(s) == s # undefined /\ Len(s) > 0

\* s?.toUpperCase(): undefined when s is absent
OptUpper(s) == IF s = undefined THEN undefined ELSE toUpperCase(s)

\* The connectionStatus values a server record is given in the model
StatusValues ==
    { S_CONNECTED, S_connected, S_Connected,
      S_DISCONNECTED, S_disconnected,
      S_FAILED, S_failed,
      S_unknown, S_CONNECTING, S_empty, undefined }

(***************************************************************************)
(* ServerManagement                                                        *)
(***************************************************************************)
Actions == {"restart", "activate", "deactivate"}

\* useState<string | null>(null): no action in flight
NULL == "null"

VARIABLES
    mgmtStatus,         \* server.connectionStatus, the prop of ServerManagement
    loading,            \* the in-flight marker: NULL or an action name
    calls,              \* handleAction invocations that have not returned yet
    toasts,             \* notifications on screen, oldest first
    handleActionResult, \* how the last finished handleAction promise settled
    menuOpen,           \* whether the dropdown menu is open
    view                \* what the last render of ServerManagement shows

mgmtVars == <<mgmtStatus, loading, calls, toasts, handleActionResult, menuOpen, view>>

\* ToolsExplorer
VARIABLES
    toolsServer,        \* the server prop: [connectionStatus, tools]
    searchTerm,         \* useState("")
    viewMode,           \* useState('grid')
    expandedTool,       \* useState(null): NoTool or a tool name
    filterStatus,       \* useState('all')
    toolsView           \* what the last render of ToolsExplorer shows

toolsVars == <<toolsServer, searchTerm, viewMode, expandedTool, filterStatus, toolsView>>

\* ServerFormModal
VARIABLES
    isOpen,             \* prop: the dialog is open
    mode,               \* prop: "add" or "edit"
    formServer,         \* prop: the server record being edited, or NoServer
    form,               \* the values react-hook-form holds
    nameError,          \* errors.name is shown
    showHeaders,        \* useState(false)
    transportType,      \* useState("sse")
    isSubmitting,       \* formState.isSubmitting
    submit,             \* the handleFormSubmit invocation that has not returned
    formCalls,          \* the calls the component's last step made on its collaborators
    handleFormSubmitResult \* how the last finished handleFormSubmit settled

formVars == <<isOpen, mode, formServer, form, nameError, showHeaders, transportType,
              isSubmitting, submit, formCalls, handleFormSubmitResult>>

vars == <<mgmtVars, toolsVars, formVars>>

\* Values a collaborator promise settles with: type is the typeof class of the
\* value, message its message property when it has one.
Value(t, has, isStr, msg) ==
    [type |-> t, hasMessage |-> has, messageIsString |-> isStr, message |-> msg]

NoValue == Value("pending", FALSE, FALSE, "")

ResolveValues ==
    { Value("undefined", FALSE, FALSE, ""),
      Value("null", FALSE, FALSE, ""),
      Value("object", TRUE, TRUE, "Server restarted"),
      Value("object", TRUE, FALSE, ""),
      Value("string", FALSE, FALSE, "") }

RejectValues ==
    { Value("Error", TRUE, TRUE, "timeout"),
      Value("object", TRUE, TRUE, "denied"),
      Value("string", FALSE, FALSE, ""),
      Value("undefined", FALSE, FALSE, "") }

Toast(k, t) == [kind |-> k, text |-> t]

\* line 44-46: the message of the result if it is an object with a string
\* message, else `Server ${action}d successfully`
successMessage(result, action) ==
    IF /\ result.type \notin {"undefined", "null"}
       /\ result.type = "object"
       /\ result.hasMessage
       /\ result.messageIsString
    THEN <<result.message>>
    ELSE <<"Server ", action, "d successfully">>

errorMessage_alwaysGeneric(error, action) == <<"Failed to ", action, " server">>

\* line 50: error instanceof Error ? error.message : `Failed to ${action} server`
errorMessage(error, action) ==
    IF error.type = "Error"
    THEN <<error.message>>
    ELSE <<"Failed to ", action, " server">>

getStatusColor_caseSensitive(status) ==
    IF ~Truthy(status) THEN "outline"
    ELSE CASE status = S_CONNECTED    -> "default"
           [] status = S_DISCONNECTED -> "secondary"
           [] status = S_FAILED       -> "destructive"
           [] OTHER                   -> "outline"

\* getStatusColor: the badge variant
getStatusColor(status) ==
    IF ~Truthy(status) THEN "outline"
    ELSE CASE toUpperCase(status) = S_CONNECTED    -> "default"
           [] toUpperCase(status) = S_DISCONNECTED -> "secondary"
           [] toUpperCase(status) = S_FAILED       -> "destructive"
           [] OTHER                                -> "outline"

\* getStatusIcon: the badge icon
getStatusIcon(status) ==
    IF ~Truthy(status) THEN "Power"
    ELSE CASE toUpperCase(status) = S_CONNECTED    -> "CheckCircle"
           [] toUpperCase(status) = S_DISCONNECTED -> "XCircle"
           [] toUpperCase(status) = S_FAILED       -> "XCircle"
           [] OTHER                                -> "Power"

\* the className of the status dot (lines 105-113)
indicatorColor(status) ==
    IF OptUpper(status) = S_CONNECTED THEN "green"
    ELSE IF OptUpper(status) = S_DISCONNECTED THEN "yellow"
    ELSE IF OptUpper(status) = S_FAILED THEN "red"
    ELSE "gray"

isActionDisabled_ignoresLoading(action, ld, status) ==
    CASE action = "activate"   -> OptUpper(status) = S_CONNECTED
      [] action = "deactivate" -> OptUpper(status) # S_CONNECTED
      [] action = "restart"    -> FALSE
      [] OTHER                 -> FALSE

isActionDisabled_caseSensitive(action, ld, status) ==
    IF ld # NULL THEN TRUE
    ELSE CASE action = "activate"   -> status = S_CONNECTED
           [] action = "deactivate" -> status # S_CONNECTED
           [] action = "restart"    -> FALSE
           [] OTHER                 -> FALSE

\* isActionDisabled, with the state and prop it closes over as parameters
isActionDisabled(action, ld, status) ==
    IF ld # NULL THEN TRUE
    ELSE CASE action = "activate"   -> OptUpper(status) = S_CONNECTED
           [] action = "deactivate" -> OptUpper(status) # S_CONNECTED
           [] action = "restart"    -> FALSE
           [] OTHER                 -> FALSE

\* The JSX returned by ServerManagement, as the record of what it shows
Render_menuOffersPrimaryAction(ld, status) ==
    LET isConnected == OptUpper(status) = S_CONNECTED
        primary     == IF isConnected THEN "deactivate" ELSE "activate"
    IN  [ indicator         |-> indicatorColor(status),
          badgeVariant      |-> getStatusColor(status),
          badgeIcon         |-> getStatusIcon(status),
          primaryAction     |-> primary,
          primaryDisabled   |-> isActionDisabled(primary, ld, status),
          primarySpinner    |-> ld = primary,
          triggerDisabled   |-> ld # NULL,
          menuToggleAction  |-> primary,
          menuToggleDisabled |-> isActionDisabled(primary, ld, status),
          restartDisabled   |-> isActionDisabled("restart", ld, status) ]

Render(ld, status) ==
    LET isConnected == OptUpper(status) = S_CONNECTED
        primary     == IF isConnected THEN "deactivate" ELSE "activate"
        secondary   == IF isConnected THEN "activate" ELSE "deactivate"
    IN  [ indicator         |-> indicatorColor(status),
          badgeVariant      |-> getStatusColor(status),
          badgeIcon         |-> getStatusIcon(status),
          primaryAction     |-> primary,
          primaryDisabled   |-> isActionDisabled(primary, ld, status),
          primarySpinner    |-> ld = primary,
          triggerDisabled   |-> ld # NULL,
          menuToggleAction  |-> secondary,
          menuToggleDisabled |-> isActionDisabled(secondary, ld, status),
          restartDisabled   |-> isActionDisabled("restart", ld, status) ]

RemoveAt(s, i) == [j \in 1..(Len(s) - 1) |-> IF j < i THEN s[j] ELSE s[j + 1]]

\* A continuation of handleAction is ready to run (its promise has settled);
\* it runs before the browser delivers the next user event.
MicrotaskReady == \E i \in 1..Len(calls) : calls[i].state # "pending"

handleActionStart_noMarker(action) ==
    /\ Len(calls) < MaxCalls
    /\ Len(calls) + Len(toasts) < MaxToasts
    /\ calls' = Append(calls, [action |-> action, state |-> "pending", value |-> NoValue])
    /\ UNCHANGED <<mgmtStatus, loading, view, toasts, handleActionResult, toolsVars, formVars>>

handleActionStart_marksRestart(action) ==
    /\ Len(calls) < MaxCalls
    /\ Len(calls) + Len(toasts) < MaxToasts
    /\ loading' = "restart"
    /\ calls' = Append(calls, [action |-> action, state |-> "pending", value |-> NoValue])
    /\ view' = Render("restart", mgmtStatus)
    /\ UNCHANGED <<mgmtStatus, toasts, handleActionResult, toolsVars, formVars>>

\* handleAction up to its await: setLoading(action), onAction(server.name, action)
handleActionStart(action) ==
    /\ Len(calls) < MaxCalls
    /\ Len(calls) + Len(toasts) < MaxToasts
    /\ loading' = action
    /\ calls' = Append(calls, [action |-> action, state |-> "pending", value |-> NoValue])
    /\ view' = Render(action, mgmtStatus)
    /\ UNCHANGED <<mgmtStatus, toasts, handleActionResult, toolsVars, formVars>>

\* A click on the primary button (Activate or Deactivate by status)
ClickPrimary ==
    /\ ~MicrotaskReady
    /\ ~menuOpen
    /\ ~view.primaryDisabled
    /\ handleActionStart(view.primaryAction)
    /\ UNCHANGED menuOpen

\* A click on the menu trigger opens the menu
OpenMenu ==
    /\ ~MicrotaskReady
    /\ ~menuOpen
    /\ ~view.triggerDisabled
    /\ menuOpen' = TRUE
    /\ UNCHANGED <<mgmtStatus, loading, calls, toasts, handleActionResult, view, toolsVars, formVars>>

\* Escape or a click outside closes the menu
CloseMenu ==
    /\ ~MicrotaskReady
    /\ menuOpen
    /\ menuOpen' = FALSE
    /\ UNCHANGED <<mgmtStatus, loading, calls, toasts, handleActionResult, view, toolsVars, formVars>>

\* A click on an entry of the open menu that is not disabled: the
\* activate/deactivate entry or Restart (lines 175-201), or Edit Server or
\* Delete Server when the parent supplied onEdit or onDelete (lines 202-219),
\* which call the parent and touch nothing of the panel; selecting an entry
\* closes the menu
ClickMenuEntry ==
    /\ ~MicrotaskReady
    /\ menuOpen
    /\ \/ \E entry \in {"toggle", "restart"} :
             LET action   == IF entry = "toggle" THEN view.menuToggleAction ELSE "restart"
                 disabled == IF entry = "toggle" THEN view.menuToggleDisabled
                                                 ELSE view.restartDisabled
             IN  /\ ~disabled
                 /\ handleActionStart(action)
       \/ \E entry \in {"edit", "delete"} :
             UNCHANGED <<mgmtStatus, loading, calls, toasts, handleActionResult, view,
                         toolsVars, formVars>>
    /\ menuOpen' = FALSE

\* The collaborator's promise resolves
PerformActionResolve ==
    \E i \in 1..Len(calls), v \in ResolveValues :
        /\ calls[i].state = "pending"
        /\ calls' = [calls EXCEPT ![i].state = "fulfilled", ![i].value = v]
        /\ UNCHANGED <<mgmtStatus, loading, toasts, handleActionResult, menuOpen, view, toolsVars, formVars>>

\* The collaborator's promise rejects
PerformActionReject ==
    \E i \in 1..Len(calls), v \in RejectValues :
        /\ calls[i].state = "pending"
        /\ calls' = [calls EXCEPT ![i].state = "rejected", ![i].value = v]
        /\ UNCHANGED <<mgmtStatus, loading, toasts, handleActionResult, menuOpen, view, toolsVars, formVars>>

handleActionResume_noFinally(i) ==
    /\ calls[i].state # "pending"
    /\ toasts' = Append(toasts,
           IF calls[i].state = "fulfilled"
           THEN Toast("success", successMessage(calls[i].value, calls[i].action))
           ELSE Toast("error", errorMessage(calls[i].value, calls[i].action)))
    /\ loading' = IF calls[i].state = "fulfilled" THEN NULL ELSE loading
    /\ handleActionResult' = "fulfilled"
    /\ calls' = RemoveAt(calls, i)
    /\ view' = Render(loading', mgmtStatus)
    /\ UNCHANGED <<mgmtStatus, menuOpen, toolsVars, formVars>>

\* handleAction after its await, for call i: the try or the catch branch, then
\* the finally block, then the return
handleActionResume(i) ==
    /\ calls[i].state # "pending"
    /\ toasts' = Append(toasts,
           IF calls[i].state = "fulfilled"
           THEN Toast("success", successMessage(calls[i].value, calls[i].action))
           ELSE Toast("error", errorMessage(calls[i].value, calls[i].action)))
    /\ loading' = NULL
    /\ handleActionResult' = "fulfilled"
    /\ calls' = RemoveAt(calls, i)
    /\ view' = Render(NULL, mgmtStatus)
    /\ UNCHANGED <<mgmtStatus, menuOpen, toolsVars, formVars>>

HandleActionResume == \E i \in 1..Len(calls) : handleActionResume(i)

\* react-hot-toast takes the oldest notification off the screen
ToastExpire ==
    /\ toasts # <<>>
    /\ toasts' = Tail(toasts)
    /\ UNCHANGED <<mgmtStatus, loading, calls, handleActionResult, menuOpen, view, toolsVars, formVars>>

\* The parent re-renders the panel with another connectionStatus
StatusChange ==
    \E s \in StatusValues :
        /\ s # mgmtStatus
        /\ mgmtStatus' = s
        /\ view' = Render(loading, s)
        /\ UNCHANGED <<loading, calls, toasts, handleActionResult, menuOpen, toolsVars, formVars>>

NextMgmt ==
    \/ ClickPrimary
    \/ OpenMenu
    \/ CloseMenu
    \/ ClickMenuEntry
    \/ PerformActionResolve
    \/ PerformActionReject
    \/ HandleActionResume
    \/ ToastExpire
    \/ StatusChange

(***************************************************************************)
(* JavaScript values and JSON.parse.  A value is a record with its kind;   *)
(* JSON.parse reads a text character by character.  Covered: objects,      *)
(* arrays, strings without escapes, integers, true, false, null, and white *)
(* space between tokens.                                                   *)
(***************************************************************************)
JsUndefined   == [kind |-> "undefined"]
JsNull        == [kind |-> "null"]
JsBool(b)     == [kind |-> "boolean", bool |-> b]
JsNumber(d)   == [kind |-> "number", digits |-> d]
JsString(c)   == [kind |-> "string", chars |-> c]
JsArray(it)   == [kind |-> "array", items |-> it]
JsObject(m)   == [kind |-> "object", members |-> m]
Member(k, v)  == [key |-> k, value |-> v]

WhiteSpace == {" ", "\t", "\n", "\r"}
Digits     == {"0", "1", "2", "3", "4", "5", "6", "7", "8", "9"}

\* the result of reading a value: failure (a SyntaxError), or the value and
\* the position after it
ParseFail    == [ok |-> FALSE, value |-> JsUndefined, next |-> 0]
ParseOk(v, n) == [ok |-> TRUE, value |-> v, next |-> n]

RECURSIVE SkipWS(_, _)
SkipWS(s, i) == IF i <= Len(s) /\ s[i] \in WhiteSpace THEN SkipWS(s, i + 1) ELSE i

StartsWith(s, i, word) ==
    /\ i + Len(word) - 1 <= Len(s)
    /\ \A k \in 1..Len(word) : s[i + k - 1] = word[k]

\* a string token at position i, where s[i] is the opening quote
ParseString(s, i) ==
    LET closing == { j \in (i + 1)..Len(s) : s[j] = "\"" }
    IN  IF closing = {} THEN ParseFail
        ELSE LET j == CHOOSE j \in closing : \A k \in closing : j <= k
             IN  IF \E k \in (i + 1)..(j - 1) : s[k] \in {"\\", "\n", "\t", "\r"}
                 THEN ParseFail
                 ELSE ParseOk(JsString(SubSeq(s, i + 1, j - 1)), j + 1)

RECURSIVE DigitsEnd(_, _)
DigitsEnd(s, i) == IF i <= Len(s) /\ s[i] \in Digits THEN DigitsEnd(s, i + 1) ELSE i

\* an integer token at position i: -? (0 | [1-9][0-9]*)
ParseNumber(s, i) ==
    LET d == IF s[i] = "-" THEN i + 1 ELSE i
        e == DigitsEnd(s, d)
    IN  IF e = d \/ (s[d] = "0" /\ e > d + 1) THEN ParseFail
        ELSE ParseOk(JsNumber(SubSeq(s, i, e - 1)), e)

RECURSIVE ParseValue(_, _), ParseMembers(_, _, _), ParseElements(_, _, _)
ParseValue(s, i0) ==
    LET i == SkipWS(s, i0)
    IN  IF i > Len(s) THEN ParseFail
        ELSE IF s[i] = "{"
             THEN LET j == SkipWS(s, i + 1)
                  IN  IF j <= Len(s) /\ s[j] = "}" THEN ParseOk(JsObject(<<>>), j + 1)
                      ELSE ParseMembers(s, j, <<>>)
        ELSE IF s[i] = "["
             THEN LET j == SkipWS(s, i + 1)
                  IN  IF j <= Len(s) /\ s[j] = "]" THEN ParseOk(JsArray(<<>>), j + 1)
                      ELSE ParseElements(s, j, <<>>)
        ELSE IF s[i] = "\"" THEN ParseString(s, i)
        ELSE IF StartsWith(s, i, <<"t", "r", "u", "e">>) THEN ParseOk(JsBool(TRUE), i + 4)
        ELSE IF StartsWith(s, i, <<"f", "a", "l", "s", "e">>) THEN ParseOk(JsBool(FALSE), i + 5)
        ELSE IF StartsWith(s, i, <<"n", "u", "l", "l">>) THEN ParseOk(JsNull, i + 4)
        ELSE ParseNumber(s, i)

\* the members of an object from position i (a key is expected), after acc
ParseMembers(s, i, acc) ==
    IF i > Len(s) \/ s[i] # "\"" THEN ParseFail
    ELSE LET k == ParseString(s, i)
         IN  IF ~k.ok THEN ParseFail
             ELSE LET c == SkipWS(s, k.next)
                  IN  IF c > Len(s) \/ s[c] # ":" THEN ParseFail
                      ELSE LET v == ParseValue(s, c + 1)
                           IN  IF ~v.ok THEN ParseFail
                               ELSE LET e   == SkipWS(s, v.next)
                                        all == Append(acc, Member(k.value.chars, v.value))
                                    IN  IF e > Len(s) THEN ParseFail
                                        ELSE IF s[e] = "}" THEN ParseOk(JsObject(all), e + 1)
                                        ELSE IF s[e] = ","
                                             THEN ParseMembers(s, SkipWS(s, e + 1), all)
                                        ELSE ParseFail

\* the elements of an array from position i, after acc
ParseElements(s, i, acc) ==
    LET v == ParseValue(s, i)
    IN  IF ~v.ok THEN ParseFail
        ELSE LET e   == SkipWS(s, v.next)
                 all == Append(acc, v.value)
             IN  IF e > Len(s) THEN ParseFail
                 ELSE IF s[e] = "]" THEN ParseOk(JsArray(all), e + 1)
                 ELSE IF s[e] = "," THEN ParseElements(s, e + 1, all)
                 ELSE ParseFail

\* JSON.parse(text): ok is FALSE when it throws
JSONparse(s) ==
    LET r == ParseValue(s, 1)
    IN  IF r.ok /\ SkipWS(s, r.next) = Len(s) + 1 THEN r ELSE ParseFail

\* JavaScript truthiness of a value
JsTruthy(v) ==
    CASE v.kind \in {"undefined", "null"} -> FALSE
      [] v.kind = "boolean" -> v.bool
      [] v.kind = "number"  -> v.digits \notin {<<"0">>, <<"-", "0">>}
      [] v.kind = "string"  -> Len(v.chars) > 0
      [] OTHER              -> TRUE

(***************************************************************************)
(* ToolsExplorer                                                           *)
(***************************************************************************)
S_search_users  == <<"s", "e", "a", "r", "c", "h", "_", "u", "s", "e", "r", "s">>
S_Find_users    == <<"F", "i", "n", "d", " ", "u", "s", "e", "r", "s">>
S_create_ticket == <<"c", "r", "e", "a", "t", "e", "_", "t", "i", "c", "k", "e", "t">>
S_Open_ticket   == <<"O", "p", "e", "n", " ", "t", "i", "c", "k", "e", "t">>
S_GetUser       == <<"G", "e", "t", "U", "s", "e", "r">>
S_Fetch_a_USER  == <<"F", "e", "t", "c", "h", " ", "a", " ", "U", "S", "E", "R">>
S_user          == <<"u", "s", "e", "r">>
S_USER          == <<"U", "S", "E", "R">>
S_ticket        == <<"t", "i", "c", "k", "e", "t">>
S_zzz           == <<"z", "z", "z">>

\* the longest tool list of a server record
MaxTools == 2

\* useState<string | null>(null): no tool is expanded
NoTool == <<"<null>">>

Tool(n, d, sch) == [name |-> n, description |-> d, schema |-> sch]

S_type   == <<"t", "y", "p", "e">>
S_object == <<"o", "b", "j", "e", "c", "t">>
\* the JSON text {"type":"object"}
S_schema_json == <<"{", "\"", "t", "y", "p", "e", "\"", ":", "\"", "o", "b", "j", "e", "c", "t", "\"", "}">>
\* the text {bad json
S_bad_json    == <<"{", "b", "a", "d", " ", "j", "s", "o", "n">>
\* the JSON text null
S_null_json   == <<"n", "u", "l", "l">>

\* { type: "object" }, as a structured value
ObjectSchema == JsObject(<<Member(S_type, JsString(S_object))>>)

\* A tool's schema: a structured object, a JSON text, another text, or absent
SchemaValues ==
    { ObjectSchema, JsUndefined,
      JsString(S_schema_json), JsString(S_bad_json), JsString(S_null_json) }

ToolPool ==
    { Tool(S_search_users, S_Find_users, ObjectSchema),
      Tool(S_GetUser, S_Fetch_a_USER, ObjectSchema) } \cup
    { Tool(S_create_ticket, S_Open_ticket, sch) : sch \in SchemaValues \ {ObjectSchema} }

\* tool lists of at most MaxTools tools, whose names are unique within a server
ToolLists ==
    { l \in UNION { [1..n -> ToolPool] : n \in 0..MaxTools } :
        \A i, j \in 1..Len(l) : i # j => l[i].name # l[j].name }

\* server.tools: an array of tools, or absent
ToolsValues ==
    { [isArray |-> TRUE, items |-> l] : l \in ToolLists } \cup
    { [isArray |-> FALSE, items |-> <<>>] }

ToolsStatusValues ==
    { S_CONNECTED, S_connected, S_FAILED, S_failed, S_DISCONNECTED, undefined }

SearchTerms == { S_empty, S_user, S_USER, S_ticket, S_zzz }

\* line 41: Array.isArray(server.tools) ? server.tools : []
toolsOf(server) == IF server.tools.isArray THEN server.tools.items ELSE <<>>

filteredTools_caseSensitive(tools, term, filter) ==
    LET keep(tool) ==
            LET matchesSearch == \/ includes(tool.name, term)
                                 \/ includes(tool.description, term)
                matchesFilter == filter = "all" \/ filter = "available"
            IN  matchesSearch /\ matchesFilter
    IN  SelectSeq(tools, keep)

filteredTools_unavailableShowsAll(tools, term, filter) ==
    LET keep(tool) ==
            \/ includes(toLowerCase(tool.name), toLowerCase(term))
            \/ includes(toLowerCase(tool.description), toLowerCase(term))
    IN  SelectSeq(tools, keep)

\* lines 43-51: tools.filter(...)
filteredTools(tools, term, filter) ==
    LET keep(tool) ==
            LET matchesSearch ==
                    \/ includes(toLowerCase(tool.name), toLowerCase(term))
                    \/ includes(toLowerCase(tool.description), toLowerCase(term))
                matchesFilter == filter = "all" \/ filter = "available"
            IN  matchesSearch /\ matchesFilter
    IN  SelectSeq(tools, keep)

\* lines 57-71: parseSchema
parseSchema(schema) ==
    IF schema.kind \in {"object", "array"} THEN schema
    ELSE IF schema.kind = "string"
         THEN LET r == JSONparse(schema.chars)
              IN  IF r.ok THEN r.value ELSE JsNull
    ELSE JsNull

\* lines 95-103: server.connectionStatus === 'CONNECTED', === 'FAILED'
getNoToolsMessage(status) ==
    IF status = S_CONNECTED
    THEN "This server is connected but doesn't have any tools available."
    ELSE IF status = S_FAILED
    THEN "Server connection failed. Tools cannot be loaded."
    ELSE "Connect to this server to load and view available tools."

\* The JSX returned by ToolsExplorer, as the record of what it shows
RenderTools(server, term, vm, expanded, filter) ==
    LET tools    == toolsOf(server)
        filtered == filteredTools(tools, term, filter)
        panel(i)   == [name |-> filtered[i].name, schema |-> parseSchema(filtered[i].schema)]
        withSchema ==
            { filtered[i].name : i \in
                { j \in 1..Len(filtered) : JsTruthy(parseSchema(filtered[j].schema)) } }
    IN  IF Len(tools) = 0
        THEN [ kind          |-> "empty",
               message       |-> getNoToolsMessage(server.connectionStatus),
               shown         |-> <<>>,
               layout        |-> "none",
               schemaButtons |-> {},
               schemaPanels  |-> {},
               noResults     |-> FALSE ]
        ELSE [ kind          |-> "explorer",
               message       |-> "",
               shown         |-> filtered,
               layout        |-> vm,
               schemaButtons |-> withSchema,
               schemaPanels  |->
                   { panel(i) : i \in
                       { j \in 1..Len(filtered) :
                           /\ expanded = filtered[j].name
                           /\ vm = "grid" => filtered[j].name \in withSchema } },
               noResults     |-> Len(filtered) = 0 ]

\* onChange of the search input
SetSearchTerm ==
    \E t \in SearchTerms :
        /\ toolsView.kind = "explorer"
        /\ t # searchTerm
        /\ searchTerm' = t
        /\ toolsView' = RenderTools(toolsServer, t, viewMode, expandedTool, filterStatus)
        /\ UNCHANGED <<toolsServer, viewMode, expandedTool, filterStatus, mgmtVars, formVars>>

SetViewMode_resetsExpansion ==
    \E m \in {"grid", "list"} :
        /\ toolsView.kind = "explorer"
        /\ viewMode' = m
        /\ expandedTool' = IF m = viewMode THEN expandedTool ELSE NoTool
        /\ toolsView' = RenderTools(toolsServer, searchTerm, m, expandedTool', filterStatus)
        /\ UNCHANGED <<toolsServer, searchTerm, filterStatus, mgmtVars, formVars>>

\* the grid and list buttons
SetViewMode ==
    \E m \in {"grid", "list"} :
        /\ toolsView.kind = "explorer"
        /\ viewMode' = m
        /\ toolsView' = RenderTools(toolsServer, searchTerm, m, expandedTool, filterStatus)
        /\ UNCHANGED <<toolsServer, searchTerm, expandedTool, filterStatus, mgmtVars, formVars>>

\* the entries of the filter menu
SetFilterStatus ==
    \E f \in {"all", "available", "unavailable"} :
        /\ toolsView.kind = "explorer"
        /\ filterStatus' = f
        /\ toolsView' = RenderTools(toolsServer, searchTerm, viewMode, expandedTool, f)
        /\ UNCHANGED <<toolsServer, searchTerm, viewMode, expandedTool, mgmtVars, formVars>>

\* lines 53-55, for a tool whose View Schema button is shown
toggleToolExpansion(toolName) ==
    /\ expandedTool' = IF expandedTool = toolName THEN NoTool ELSE toolName
    /\ toolsView' = RenderTools(toolsServer, searchTerm, viewMode, expandedTool', filterStatus)
    /\ UNCHANGED <<toolsServer, searchTerm, viewMode, filterStatus, mgmtVars, formVars>>

ClickViewSchema ==
    \E n \in toolsView.schemaButtons : toggleToolExpansion(n)

\* The parent re-renders the explorer with another tool list
ToolsChange ==
    \E t \in ToolsValues :
        /\ t # toolsServer.tools
        /\ toolsServer' = [toolsServer EXCEPT !.tools = t]
        /\ toolsView' = RenderTools(toolsServer', searchTerm, viewMode, expandedTool, filterStatus)
        /\ UNCHANGED <<searchTerm, viewMode, expandedTool, filterStatus, mgmtVars, formVars>>

\* The parent re-renders the explorer with another connectionStatus
ToolsStatusChange ==
    \E st \in ToolsStatusValues :
        /\ st # toolsServer.connectionStatus
        /\ toolsServer' = [toolsServer EXCEPT !.connectionStatus = st]
        /\ toolsView' = RenderTools(toolsServer', searchTerm, viewMode, expandedTool, filterStatus)
        /\ UNCHANGED <<searchTerm, viewMode, expandedTool, filterStatus, mgmtVars, formVars>>

NextTools ==
    \/ SetSearchTerm
    \/ SetViewMode
    \/ SetFilterStatus
    \/ ClickViewSchema
    \/ ToolsChange
    \/ ToolsStatusChange

\* The steps of the user alone: the server record the explorer is given stays
NextToolsUser ==
    \/ SetSearchTerm
    \/ SetViewMode
    \/ SetFilterStatus
    \/ ClickViewSchema

(***************************************************************************)
(* ServerFormModal                                                         *)
(***************************************************************************)
\* the most header rows the user adds
MaxHeaders == 1

Transports == {"sse", "streamable_http", "stdio"}

Header(k, v) == [key |-> k, value |-> v]

FormData(n, d, t, u, c, a, o, p, h) ==
    [ name |-> n, description |-> d, transport |-> t, url |-> u, command |-> c,
      args |-> a, requiresOauth |-> o, isPublic |-> p, headers |-> h ]

\* lines 70-80 and 110-120: the empty defaults
DefaultValues == FormData("", "", "sse", "", "", "", FALSE, FALSE, <<>>)

\* server.args: absent, a string, or an array of strings
Args(t, txt, it) == [type |-> t, text |-> txt, items |-> it]

McpServer(n, d, t, u, c, a, o, p, h) ==
    [ present |-> TRUE, name |-> n, description |-> d, transport |-> t, url |-> u,
      command |-> c, args |-> a, requiresOauth2 |-> o, isPublic |-> p, headers |-> h ]

\* server is null or undefined
NoServer == [present |-> FALSE]

\* The server records the dialog is given in the model
FormServers ==
    { NoServer,
      McpServer("web", "", "sse", "https://mcp.example.com/mcp", "",
                Args("absent", "", <<>>), FALSE, TRUE,
                <<Header("Authorization", "Bearer token123")>>),
      McpServer("local", "runs locally", "stdio", "", "python",
                Args("array", "", <<"-m", "my_module">>), TRUE, FALSE, <<>>) }

\* What the user types into each text input
Typed ==
    [ name        |-> {"", "My MCP Server"},
      description |-> {"", "runs locally"},
      url         |-> {"", "https://mcp.example.com/mcp"},
      command     |-> {"", "python"},
      args        |-> {"", "[\"-m\",\"my_module\"]"} ]

TypedHeaders == { Header("Authorization", "Bearer token123") }

RECURSIVE JoinQuoted(_)
\* the elements of an array of strings as JSON.stringify writes them
JoinQuoted(items) ==
    IF Len(items) = 0 THEN ""
    ELSE IF Len(items) = 1 THEN "\"" \o items[1] \o "\""
    ELSE "\"" \o items[1] \o "\"," \o JoinQuoted(Tail(items))

\* JSON.stringify of an array of strings
JSONstringify(items) == "[" \o JoinQuoted(items) \o "]"

\* line 103: server.args ? (typeof server.args === 'string' ? server.args
\*                                        : JSON.stringify(server.args)) : ""
argsText(args) ==
    IF args.type = "absent" \/ (args.type = "string" /\ args.text = "") THEN ""
    ELSE IF args.type = "string" THEN args.text
    ELSE JSONstringify(args.items)

resetValues_keepsHeaders(m, server) ==
    IF m = "edit" /\ server.present
    THEN FormData(server.name, server.description, server.transport, server.url,
                  server.command, argsText(server.args), server.requiresOauth2,
                  server.isPublic, server.headers)
    ELSE DefaultValues

\* lines 96-121: the values the form is reset to when the dialog opens
resetValues(m, server) ==
    IF m = "edit" /\ server.present
    THEN FormData(server.name, server.description, server.transport, server.url,
                  server.command, argsText(server.args), server.requiresOauth2,
                  server.isPublic, <<>>)
    ELSE DefaultValues

\* no handleFormSubmit invocation is under way
NoSubmit == [state |-> "none", mode |-> "none", value |-> NoValue]

PersistRejectValues == { Value("Error", TRUE, TRUE, "duplicate name") }

\* a call the component makes on a collaborator or on the toast library
Call(f, a) == [fn |-> f, arg |-> a]

\* A continuation of handleFormSubmit is ready to run
FormMicrotaskReady == submit.state \in {"fulfilled", "rejected"}

\* lines 94-125: the effect that runs when isOpen, mode or server changes
resetEffect(open, m, server) ==
    IF open
    THEN /\ form' = resetValues(m, server)
         /\ nameError' = FALSE
         /\ transportType' = resetValues(m, server).transport
         /\ showHeaders' = FALSE
    ELSE UNCHANGED <<form, nameError, transportType, showHeaders>>

\* The parent opens the dialog, in a mode and with a server record
OpenDialog ==
    \E m \in {"add", "edit"}, srv \in FormServers :
        /\ ~isOpen
        /\ isOpen' = TRUE
        /\ mode' = m
        /\ formServer' = srv
        /\ resetEffect(TRUE, m, srv)
        /\ formCalls' = <<>>
        /\ UNCHANGED <<isSubmitting, submit, handleFormSubmitResult, mgmtVars, toolsVars>>

\* The parent re-renders the open dialog with another mode or server record
PropsChange ==
    \E m \in {"add", "edit"}, srv \in FormServers :
        /\ isOpen
        /\ <<m, srv>> # <<mode, formServer>>
        /\ mode' = m
        /\ formServer' = srv
        /\ resetEffect(TRUE, m, srv)
        /\ formCalls' = <<>>
        /\ UNCHANGED <<isOpen, isSubmitting, submit, handleFormSubmitResult,
                       mgmtVars, toolsVars>>

\* Cancel, Escape or a click outside: onClose(), and the parent closes the dialog
CloseDialog ==
    /\ isOpen
    /\ ~FormMicrotaskReady
    /\ isOpen' = FALSE
    /\ formCalls' = <<Call("onClose", <<>>)>>
    /\ UNCHANGED <<mode, formServer, form, nameError, showHeaders, transportType,
                   isSubmitting, submit, handleFormSubmitResult, mgmtVars, toolsVars>>

\* The user types into a text input that is shown
EditText ==
    \E f \in DOMAIN Typed :
      \E v \in Typed[f] :
        /\ isOpen
        /\ ~FormMicrotaskReady
        /\ f \in {"command", "args"} => transportType = "stdio"
        /\ f = "url" => transportType # "stdio"
        /\ form[f] # v
        /\ form' = [form EXCEPT ![f] = v]
        /\ formCalls' = <<>>
        /\ UNCHANGED <<isOpen, mode, formServer, nameError, showHeaders, transportType,
                       isSubmitting, submit, handleFormSubmitResult, mgmtVars, toolsVars>>

\* The user ticks or unticks a checkbox
ToggleCheckbox ==
    \E f \in {"requiresOauth", "isPublic"} :
        /\ isOpen
        /\ ~FormMicrotaskReady
        /\ form' = [form EXCEPT ![f] = ~form[f]]
        /\ formCalls' = <<>>
        /\ UNCHANGED <<isOpen, mode, formServer, nameError, showHeaders, transportType,
                       isSubmitting, submit, handleFormSubmitResult, mgmtVars, toolsVars>>

SelectTransport_clearsHiddenFields ==
    \E t \in Transports :
        /\ isOpen
        /\ ~FormMicrotaskReady
        /\ form.transport # t
        /\ form' = IF t = "stdio"
                   THEN [form EXCEPT !.transport = t, !.url = "", !.headers = <<>>]
                   ELSE [form EXCEPT !.transport = t, !.command = "", !.args = ""]
        /\ transportType' = t
        /\ formCalls' = <<>>
        /\ UNCHANGED <<isOpen, mode, formServer, nameError, showHeaders,
                       isSubmitting, submit, handleFormSubmitResult, mgmtVars, toolsVars>>

\* The user picks a transport radio button; lines 88-92 copy it to transportType
SelectTransport ==
    \E t \in Transports :
        /\ isOpen
        /\ ~FormMicrotaskReady
        /\ form.transport # t
        /\ form' = [form EXCEPT !.transport = t]
        /\ transportType' = t
        /\ formCalls' = <<>>
        /\ UNCHANGED <<isOpen, mode, formServer, nameError, showHeaders,
                       isSubmitting, submit, handleFormSubmitResult, mgmtVars, toolsVars>>

\* line 278: the HTTP Headers disclosure
ToggleShowHeaders ==
    /\ isOpen
    /\ ~FormMicrotaskReady
    /\ transportType # "stdio"
    /\ showHeaders' = ~showHeaders
    /\ formCalls' = <<>>
    /\ UNCHANGED <<isOpen, mode, formServer, form, nameError, transportType,
                   isSubmitting, submit, handleFormSubmitResult, mgmtVars, toolsVars>>

\* line 313: append({ key: "", value: "" })
AppendHeader ==
    /\ isOpen
    /\ ~FormMicrotaskReady
    /\ transportType # "stdio"
    /\ showHeaders
    /\ Len(form.headers) < MaxHeaders
    /\ form' = [form EXCEPT !.headers = Append(@, Header("", ""))]
    /\ formCalls' = <<>>
    /\ UNCHANGED <<isOpen, mode, formServer, nameError, showHeaders, transportType,
                   isSubmitting, submit, handleFormSubmitResult, mgmtVars, toolsVars>>

\* line 304: remove(index)
RemoveHeader ==
    \E i \in 1..Len(form.headers) :
        /\ isOpen
        /\ ~FormMicrotaskReady
        /\ transportType # "stdio"
        /\ showHeaders
        /\ form' = [form EXCEPT !.headers = RemoveAt(@, i)]
        /\ formCalls' = <<>>
        /\ UNCHANGED <<isOpen, mode, formServer, nameError, showHeaders, transportType,
                       isSubmitting, submit, handleFormSubmitResult, mgmtVars, toolsVars>>

\* The user fills in the key and value inputs of a header row
EditHeader ==
    \E i \in 1..Len(form.headers), h \in TypedHeaders :
        /\ isOpen
        /\ ~FormMicrotaskReady
        /\ transportType # "stdio"
        /\ showHeaders
        /\ form.headers[i] # h
        /\ form' = [form EXCEPT !.headers[i] = h]
        /\ formCalls' = <<>>
        /\ UNCHANGED <<isOpen, mode, formServer, nameError, showHeaders, transportType,
                       isSubmitting, submit, handleFormSubmitResult, mgmtVars, toolsVars>>

validates_requiresTransportFields(data) ==
    /\ data.name # ""
    /\ data.transport = "stdio" => data.command # ""
    /\ data.transport # "stdio" => data.url # ""

\* line 27: z.string().min(1, "Server name is required"); no other field is
\* constrained by serverSchema beyond its type
validates(data) == data.name # ""

\* The form is submitted: handleSubmit validates, and on success calls
\* handleFormSubmit(data), which runs up to its await
Submit ==
    /\ isOpen
    /\ ~FormMicrotaskReady
    /\ ~isSubmitting
    /\ IF validates(form)
       THEN /\ nameError' = FALSE
            /\ isSubmitting' = TRUE
            /\ submit' = [state |-> "pending", mode |-> mode, value |-> NoValue]
            /\ formCalls' = <<Call("onSubmit", <<form>>)>>
       ELSE /\ nameError' = TRUE
            /\ formCalls' = <<>>
            /\ UNCHANGED <<isSubmitting, submit>>
    /\ UNCHANGED <<isOpen, mode, formServer, form, showHeaders, transportType,
                   handleFormSubmitResult, mgmtVars, toolsVars>>

\* The persist collaborator's promise resolves
PersistResolve ==
    /\ submit.state = "pending"
    /\ submit' = [submit EXCEPT !.state = "fulfilled",
                                !.value = Value("undefined", FALSE, FALSE, "")]
    /\ UNCHANGED <<formCalls, isOpen, mode, formServer, form, nameError, showHeaders, transportType,
                   isSubmitting, handleFormSubmitResult, mgmtVars, toolsVars>>

\* The persist collaborator's promise rejects
PersistReject ==
    \E v \in PersistRejectValues :
        /\ submit.state = "pending"
        /\ submit' = [submit EXCEPT !.state = "rejected", !.value = v]
        /\ UNCHANGED <<formCalls, isOpen, mode, formServer, form, nameError, showHeaders,
                       transportType, isSubmitting, handleFormSubmitResult,
                       mgmtVars, toolsVars>>

handleFormSubmitResume_closesOnFailure ==
    /\ FormMicrotaskReady
    /\ isOpen' = FALSE
    /\ formCalls' =
          IF submit.state = "fulfilled"
          THEN << Call("onClose", <<>>),
                  Call("toast.success",
                       <<"Server ", IF submit.mode = "add" THEN "added" ELSE "updated",
                         " successfully">>) >>
          ELSE << Call("onClose", <<>>),
                  Call("toast.error",
                       <<"Failed to ", IF submit.mode = "add" THEN "add" ELSE "update",
                         " server">>) >>
    /\ isSubmitting' = FALSE
    /\ submit' = NoSubmit
    /\ handleFormSubmitResult' = "fulfilled"
    /\ UNCHANGED <<mode, formServer, form, nameError, showHeaders, transportType,
                   mgmtVars, toolsVars>>

handleFormSubmitResume_notifiesBeforeClose ==
    /\ FormMicrotaskReady
    /\ IF submit.state = "fulfilled"
       THEN /\ isOpen' = FALSE
            /\ formCalls' =
                 << Call("toast.success",
                         <<"Server ", IF submit.mode = "add" THEN "added" ELSE "updated",
                           " successfully">>),
                    Call("onClose", <<>>) >>
       ELSE /\ isOpen' = isOpen
            /\ formCalls' =
                 << Call("toast.error",
                         <<"Failed to ", IF submit.mode = "add" THEN "add" ELSE "update",
                           " server">>) >>
    /\ isSubmitting' = FALSE
    /\ submit' = NoSubmit
    /\ handleFormSubmitResult' = "fulfilled"
    /\ UNCHANGED <<mode, formServer, form, nameError, showHeaders, transportType,
                   mgmtVars, toolsVars>>

\* lines 130-135: handleFormSubmit after its await: onClose() and the success
\* notification, or the catch branch; then the handler returns
handleFormSubmitResume ==
    /\ FormMicrotaskReady
    /\ IF submit.state = "fulfilled"
       THEN /\ isOpen' = FALSE
            /\ formCalls' =
                 << Call("onClose", <<>>),
                    Call("toast.success",
                         <<"Server ", IF submit.mode = "add" THEN "added" ELSE "updated",
                           " successfully">>) >>
       ELSE /\ isOpen' = isOpen
            /\ formCalls' =
                 << Call("toast.error",
                         <<"Failed to ", IF submit.mode = "add" THEN "add" ELSE "update",
                           " server">>) >>
    /\ isSubmitting' = FALSE
    /\ submit' = NoSubmit
    /\ handleFormSubmitResult' = "fulfilled"
    /\ UNCHANGED <<mode, formServer, form, nameError, showHeaders, transportType,
                   mgmtVars, toolsVars>>

NextForm ==
    \/ OpenDialog
    \/ PropsChange
    \/ CloseDialog
    \/ EditText
    \/ ToggleCheckbox
    \/ SelectTransport
    \/ ToggleShowHeaders
    \/ AppendHeader
    \/ RemoveHeader
    \/ EditHeader
    \/ Submit
    \/ PersistResolve
    \/ PersistReject
    \/ handleFormSubmitResume

(***************************************************************************)
(* Specifications: one per component.  Each starts from the state after    *)
(* the components are mounted (the useState and useForm initial values)    *)
(* with the props of the component it is about drawn from the model's      *)
(* sets, and takes the steps of that component only.                       *)
(***************************************************************************)
\* a server record without status and tools
NoToolsServer ==
    [connectionStatus |-> undefined, tools |-> [isArray |-> FALSE, items |-> <<>>]]

InitMgmt ==
    /\ mgmtStatus \in StatusValues
    /\ loading = NULL
    /\ calls = <<>>
    /\ toasts = <<>>
    /\ handleActionResult = "none"
    /\ menuOpen = FALSE
    /\ view = Render(NULL, mgmtStatus)
    /\ toolsServer = NoToolsServer
    /\ searchTerm = S_empty
    /\ viewMode = "grid"
    /\ expandedTool = NoTool
    /\ filterStatus = "all"
    /\ toolsView = RenderTools(toolsServer, S_empty, "grid", NoTool, "all")
    /\ mode = "add"
    /\ formServer = NoServer
    /\ isOpen = FALSE
    /\ form = DefaultValues
    /\ nameError = FALSE
    /\ showHeaders = FALSE
    /\ transportType = "sse"
    /\ isSubmitting = FALSE
    /\ submit = NoSubmit
    /\ formCalls = <<>>
    /\ handleFormSubmitResult = "none"

InitTools ==
    /\ toolsServer \in [connectionStatus : ToolsStatusValues, tools : ToolsValues]
    /\ searchTerm = S_empty
    /\ viewMode = "grid"
    /\ expandedTool = NoTool
    /\ filterStatus = "all"
    /\ toolsView = RenderTools(toolsServer, S_empty, "grid", NoTool, "all")
    /\ mgmtStatus = undefined
    /\ loading = NULL
    /\ calls = <<>>
    /\ toasts = <<>>
    /\ handleActionResult = "none"
    /\ menuOpen = FALSE
    /\ view = Render(NULL, undefined)
    /\ mode = "add"
    /\ formServer = NoServer
    /\ isOpen = FALSE
    /\ form = DefaultValues
    /\ nameError = FALSE
    /\ showHeaders = FALSE
    /\ transportType = "sse"
    /\ isSubmitting = FALSE
    /\ submit = NoSubmit
    /\ formCalls = <<>>
    /\ handleFormSubmitResult = "none"

InitForm ==
    /\ mode \in {"add", "edit"}
    /\ formServer \in FormServers
    /\ isOpen = FALSE
    /\ form = DefaultValues
    /\ nameError = FALSE
    /\ showHeaders = FALSE
    /\ transportType = "sse"
    /\ isSubmitting = FALSE
    /\ submit = NoSubmit
    /\ formCalls = <<>>
    /\ handleFormSubmitResult = "none"
    /\ mgmtStatus = undefined
    /\ loading = NULL
    /\ calls = <<>>
    /\ toasts = <<>>
    /\ handleActionResult = "none"
    /\ menuOpen = FALSE
    /\ view = Render(NULL, undefined)
    /\ toolsServer = NoToolsServer
    /\ searchTerm = S_empty
    /\ viewMode = "grid"
    /\ expandedTool = NoTool
    /\ filterStatus = "all"
    /\ toolsView = RenderTools(toolsServer, S_empty, "grid", NoTool, "all")

SpecMgmt == InitMgmt /\ [][NextMgmt]_vars

\* The continuation of a settled promise is always run by the event loop
FairSpecMgmt == SpecMgmt /\ WF_vars(HandleActionResume)

SpecTools == InitTools /\ [][NextTools]_vars

\* The explorer on one server record: searches, filter changes, view-mode
\* switches and toggles only
SpecToolsUser == InitTools /\ [][NextToolsUser]_vars

SpecForm == InitForm /\ [][NextForm]_vars


(***************************************************************************)
(* Properties of ServerManagement.                                         *)
(***************************************************************************)
\* s is the status word in some letter case
IsStatus(s, word) ==
    /\ s # undefined
    /\ Len(s) = Len(word)
    /\ \A i \in 1..Len(word) : s[i] = word[i] \/ s[i] = toLowerChar(word[i])

Settled == \E i \in 1..Len(calls) : calls[i].state # "pending"

\* C1: once the performAction promise of a started action (restart, activate
\* or deactivate) has settled, resolved or rejected, the handleAction
\* invocation eventually ends with the in-flight marker none.
C1_MarkerClearedAfterSettle == Settled ~> (calls = <<>> /\ loading = NULL)

\* a rejected action has been handled and the marker is none again
C1_Witness ==
    /\ loading = NULL
    /\ calls = <<>>
    /\ handleActionResult = "fulfilled"
    /\ \E i \in 1..Len(toasts) : toasts[i].kind = "error"

\* C2: whenever the in-flight marker is set, the primary button, the menu
\* trigger, the activate/deactivate entry and the restart entry are disabled,
\* and so is every action by isActionDisabled, whatever the status.
C2_AllDisabledInFlight ==
    loading # NULL =>
        /\ view.primaryDisabled
        /\ view.triggerDisabled
        /\ view.menuToggleDisabled
        /\ view.restartDisabled
        /\ \A a \in Actions : isActionDisabled(a, loading, mgmtStatus)

\* restart is in flight on a connected server, where status alone would
\* leave Deactivate and Restart enabled
C2_Witness ==
    /\ loading = "restart"
    /\ mgmtStatus = S_connected
    /\ view.primaryAction = "deactivate"
    /\ view.primaryDisabled

\* C3: at most one performAction call of the panel is pending at any time.
C3_AtMostOnePending ==
    Cardinality({ i \in 1..Len(calls) : calls[i].state = "pending" }) <= 1

\* a second action is pending after an earlier one has completed
C3_Witness ==
    /\ Len(calls) = 1
    /\ calls[1].state = "pending"
    /\ calls[1].action = "restart"
    /\ handleActionResult = "fulfilled"

\* C4: the step that handles a rejected performAction call adds exactly one
\* notification, an error whose text is the message of the rejection when that
\* is an Error and "Failed to <action> server" otherwise; the handleAction
\* promise is fulfilled (nothing propagates); the marker is none and the
\* primary button, the menu trigger and Restart are enabled.
C4_RejectionHandled ==
    [][ \A i \in 1..Len(calls) :
          (calls[i].state = "rejected" /\ calls' = RemoveAt(calls, i)) =>
             /\ toasts' = Append(toasts,
                    Toast("error",
                          IF calls[i].value.type = "Error"
                          THEN <<calls[i].value.message>>
                          ELSE <<"Failed to ", calls[i].action, " server">>))
             /\ handleActionResult' = "fulfilled"
             /\ loading' = NULL
             /\ ~view'.primaryDisabled
             /\ ~view'.triggerDisabled
             /\ ~view'.restartDisabled ]_vars

\* Error("timeout") and a rejection that is no Error have both been handled
C4_Witness ==
    /\ loading = NULL
    /\ ~view.primaryDisabled
    /\ \E i \in 1..Len(toasts) : toasts[i] = Toast("error", <<"timeout">>)
    /\ \E i \in 1..Len(toasts) :
          toasts[i] = Toast("error", <<"Failed to ", "restart", " server">>)

\* the Activate and the Deactivate control, wherever the render puts them
ActivateDisabled ==
    IF view.primaryAction = "activate" THEN view.primaryDisabled
                                       ELSE view.menuToggleDisabled

DeactivateDisabled ==
    IF view.primaryAction = "deactivate" THEN view.primaryDisabled
                                         ELSE view.menuToggleDisabled

\* C5 as stated: activate is disabled iff the status is connected, deactivate
\* iff it is not, in every state; restart is not disabled by status alone.
C5_Original ==
    /\ ActivateDisabled <=> IsStatus(mgmtStatus, S_CONNECTED)
    /\ DeactivateDisabled <=> ~IsStatus(mgmtStatus, S_CONNECTED)
    /\ loading = NULL => ~view.restartDisabled

\* C5, amended: while no action is in flight, activate is disabled iff the
\* status is connected (in any letter case), deactivate is disabled iff it is
\* not connected (absent included), and restart is not disabled.
C5_DisabledByStatus ==
    loading = NULL =>
        /\ ActivateDisabled <=> IsStatus(mgmtStatus, S_CONNECTED)
        /\ DeactivateDisabled <=> ~IsStatus(mgmtStatus, S_CONNECTED)
        /\ isActionDisabled("activate", loading, mgmtStatus)
              <=> IsStatus(mgmtStatus, S_CONNECTED)
        /\ isActionDisabled("deactivate", loading, mgmtStatus)
              <=> ~IsStatus(mgmtStatus, S_CONNECTED)
        /\ ~view.restartDisabled

\* a panel that is idle again, for a server whose status is "Connected"
C5_Witness ==
    /\ loading = NULL
    /\ handleActionResult = "fulfilled"
    /\ mgmtStatus = S_Connected
    /\ ActivateDisabled
    /\ ~DeactivateDisabled

\* C6: colour, badge variant and icon are the four-case function of the
\* status (compared without regard to letter case), whatever the marker is.
C6_StatusPresentation ==
    <<view.indicator, view.badgeVariant, view.badgeIcon>> =
        IF IsStatus(mgmtStatus, S_CONNECTED) THEN <<"green", "default", "CheckCircle">>
        ELSE IF IsStatus(mgmtStatus, S_DISCONNECTED) THEN <<"yellow", "secondary", "XCircle">>
        ELSE IF IsStatus(mgmtStatus, S_FAILED) THEN <<"red", "destructive", "XCircle">>
        ELSE <<"gray", "outline", "Power">>

\* a server whose status is "failed", shown while an action is in flight
C6_Witness ==
    /\ mgmtStatus = S_failed
    /\ loading = "activate"
    /\ view.indicator = "red"

(***************************************************************************)
(* Properties of ToolsExplorer.                                            *)
(***************************************************************************)
\* C7: status is compared without regard to letter case everywhere; in the
\* empty state of ToolsExplorer the message is the "connected but no tools"
\* one for a connected status, the "connection failed" one for a failed
\* status and the "connect to load tools" one for anything else.
C7_EmptyStateIgnoresCase ==
    toolsView.kind = "empty" =>
        toolsView.message =
            IF IsStatus(toolsServer.connectionStatus, S_CONNECTED)
            THEN "This server is connected but doesn't have any tools available."
            ELSE IF IsStatus(toolsServer.connectionStatus, S_FAILED)
            THEN "Server connection failed. Tools cannot be loaded."
            ELSE "Connect to this server to load and view available tools."

\* hay contains needle when letter case is disregarded
ContainsIgnoringCase(hay, needle) ==
    \E k \in 0..(Len(hay) - Len(needle)) :
        \A i \in 1..Len(needle) :
            \/ hay[k + i] = needle[i]
            \/ toUpperChar(hay[k + i]) = needle[i]
            \/ hay[k + i] = toUpperChar(needle[i])

\* the position of the tool named n in the list l (names are unique)
IndexOfTool(l, n) == CHOOSE i \in 1..Len(l) : l[i].name = n

\* C8: the tools shown are exactly the tools of the server whose name or
\* description contains the search text, letter case disregarded, provided
\* the filter is all or available (none otherwise), each once and in the
\* order of the server's list.
C8_FilteredTools ==
    toolsView.kind = "explorer" =>
        LET tools == toolsServer.tools.items
            shown == toolsView.shown
            wanted(t) ==
                /\ \/ ContainsIgnoringCase(t.name, searchTerm)
                   \/ ContainsIgnoringCase(t.description, searchTerm)
                /\ filterStatus \in {"all", "available"}
        IN  /\ \A i \in 1..Len(tools) :
                  wanted(tools[i]) <=> \E j \in 1..Len(shown) : shown[j] = tools[i]
            /\ \A j \in 1..Len(shown) : \E i \in 1..Len(tools) : shown[j] = tools[i]
            /\ \A j, k \in 1..Len(shown) :
                  j < k => IndexOfTool(tools, shown[j].name) < IndexOfTool(tools, shown[k].name)

\* search "user" over search_users / "Find users" and create_ticket /
\* "Open ticket" shows exactly the first tool
C8_Witness ==
    /\ toolsServer.tools.isArray
    /\ Len(toolsServer.tools.items) = 2
    /\ toolsServer.tools.items[1].name = S_search_users
    /\ toolsServer.tools.items[1].description = S_Find_users
    /\ toolsServer.tools.items[2].name = S_create_ticket
    /\ toolsServer.tools.items[2].description = S_Open_ticket
    /\ searchTerm = S_user
    /\ filterStatus = "all"
    /\ toolsView.shown = <<toolsServer.tools.items[1]>>

\* C9 as stated: under the filter unavailable the tools shown are the tools
\* that the filter available shows for the same list and search text.
C9_Original ==
    (toolsView.kind = "explorer" /\ filterStatus = "unavailable") =>
        toolsView.shown =
            RenderTools(toolsServer, searchTerm, viewMode, expandedTool, "available").shown

\* C9, amended: under the filter unavailable no tool is shown, for every tool
\* list and search text (the "no tools found" message is shown instead); this
\* equals the result under available only when no tool matches the search.
C9_UnavailableShowsNothing ==
    (toolsView.kind = "explorer" /\ filterStatus = "unavailable") =>
        /\ toolsView.shown = <<>>
        /\ toolsView.noResults
        /\ (toolsView.shown =
               RenderTools(toolsServer, searchTerm, viewMode, expandedTool, "available").shown)
           <=> \A i \in 1..Len(toolsServer.tools.items) :
                  /\ ~ContainsIgnoringCase(toolsServer.tools.items[i].name, searchTerm)
                  /\ ~ContainsIgnoringCase(toolsServer.tools.items[i].description, searchTerm)

\* two tools, an empty search text, filter unavailable: nothing is shown
C9_Witness ==
    /\ toolsView.kind = "explorer"
    /\ filterStatus = "unavailable"
    /\ Len(toolsServer.tools.items) = 2
    /\ searchTerm = S_empty
    /\ toolsView.shown = <<>>

(***************************************************************************)
(* Properties of ServerFormModal.                                          *)
(***************************************************************************)
\* C10: a submission passes persist the form's values and leaves them in
\* place; the step that handles persist's rejection makes exactly one call,
\* the generic error notification for the mode (so neither onClose nor a
\* success notification), leaves the dialog open or closed as it was, returns
\* normally, and changes no field value, header row or disclosure state; when
\* the component did nothing between the submission and the rejection, the
\* values after the failure are the values that were submitted.
C10_FailureKeepsForm ==
    [][ /\ (submit.state = "none" /\ submit'.state = "pending") =>
              /\ form' = form
              /\ formCalls' = <<Call("onSubmit", <<form>>)>>
        /\ (submit.state = "rejected" /\ submit'.state = "none") =>
              /\ formCalls' =
                    <<Call("toast.error",
                           <<"Failed to ", IF submit.mode = "add" THEN "add" ELSE "update",
                             " server">>)>>
              /\ isOpen' = isOpen
              /\ handleFormSubmitResult' = "fulfilled"
              /\ form' = form
              /\ showHeaders' = showHeaders
              /\ transportType' = transportType
              /\ (Len(formCalls) = 1 /\ formCalls[1].fn = "onSubmit") =>
                    form' = formCalls[1].arg[1] ]_vars

\* a rejected submission of a form with a header row has been handled and the
\* dialog is still open with the values in place
C10_Witness ==
    /\ isOpen
    /\ formCalls = <<Call("toast.error", <<"Failed to ", "add", " server">>)>>
    /\ form.name = "My MCP Server"
    /\ form.url = "https://mcp.example.com/mcp"
    /\ form.headers = <<Header("Authorization", "Bearer token123")>>
    /\ showHeaders

(***************************************************************************)
(* Properties of ServerFormModal, continued.                               *)
(***************************************************************************)
\* the calls named fn among the calls cs
CallsTo(cs, fn) == { i \in 1..Len(cs) : cs[i].fn = fn }

\* C11: the step that handles persist's resolution calls onClose and then
\* emits the success notification, worded "added" when the form was submitted
\* in add mode and "updated" when it was submitted in edit mode (the mode on
\* screen, when the component did nothing since the submission); and a
\* submission calls onClose at no other point: not when it starts, not when
\* persist settles, and not when it handles a rejection.
C11_SuccessClosesThenNotifies ==
    [][ /\ (submit.state = "fulfilled" /\ submit'.state = "none") =>
              /\ formCalls' =
                    << Call("onClose", <<>>),
                       Call("toast.success",
                            <<"Server ",
                              IF submit.mode = "add" THEN "added" ELSE "updated",
                              " successfully">>) >>
              /\ ~isOpen'
              /\ (Len(formCalls) = 1 /\ formCalls[1].fn = "onSubmit") =>
                    formCalls'[2].arg[2] = (IF mode = "add" THEN "added" ELSE "updated")
        /\ (submit.state = "none" /\ submit'.state = "pending") =>
              /\ submit'.mode = mode
              /\ CallsTo(formCalls', "onClose") = {}
              /\ isOpen' = isOpen
        /\ (submit.state = "pending" /\ submit'.state # "pending") =>
              /\ formCalls' = formCalls
              /\ isOpen' = isOpen
        /\ (submit.state = "rejected" /\ submit'.state = "none") =>
              CallsTo(formCalls', "onClose") = {} ]_vars

\* a submission made in edit mode has been persisted: the dialog was closed
\* and the "updated" notification emitted after it
C11_Witness ==
    /\ ~isOpen
    /\ handleFormSubmitResult = "fulfilled"
    /\ formCalls = << Call("onClose", <<>>),
                      Call("toast.success", <<"Server ", "updated", " successfully">>) >>

\* C12: a submission of a form whose name is empty is blocked: persist is not
\* called, no handler starts, and the name field's error is shown; a
\* submission of a form whose name is not empty shows no error and calls
\* persist with the form's values, whatever url, command and args hold, for
\* every transport; so persist never receives an empty name.
C12_OnlyNameIsValidated ==
    [][ Submit =>
          IF form.name = ""
          THEN /\ nameError'
               /\ formCalls' = <<>>
               /\ submit' = submit
               /\ isSubmitting' = isSubmitting
          ELSE /\ ~nameError'
               /\ formCalls' = <<Call("onSubmit", <<form>>)>>
               /\ submit'.state = "pending"
               /\ isSubmitting' ]_vars

\* a form with transport stdio and an empty command has reached persist
C12_Witness ==
    /\ submit.state = "pending"
    /\ Len(formCalls) = 1
    /\ formCalls[1].fn = "onSubmit"
    /\ formCalls[1].arg[1].name = "My MCP Server"
    /\ formCalls[1].arg[1].transport = "stdio"
    /\ formCalls[1].arg[1].command = ""

\* C13: every step that opens the dialog re-initialises the form, whatever it
\* held: in edit mode with a server record every field is the record's (args
\* as text, an absent one as the empty text) and there is no header row, also
\* when the record has headers; otherwise (add mode) every field is the empty
\* default and transport is sse; in both, the headers disclosure is collapsed,
\* no error is shown and the sub-form is the one of the form's transport.
C13_OpenResetsForm ==
    [][ (~isOpen /\ isOpen') =>
          /\ ~showHeaders'
          /\ ~nameError'
          /\ transportType' = form'.transport
          /\ form'.headers = <<>>
          /\ IF mode' = "edit" /\ formServer'.present
             THEN /\ form'.name = formServer'.name
                  /\ form'.description = formServer'.description
                  /\ form'.transport = formServer'.transport
                  /\ form'.url = formServer'.url
                  /\ form'.command = formServer'.command
                  /\ form'.requiresOauth = formServer'.requiresOauth2
                  /\ form'.isPublic = formServer'.isPublic
                  /\ formServer'.args.type = "absent" => form'.args = ""
                  /\ formServer'.args.type = "string" => form'.args = formServer'.args.text
                  /\ formServer'.args.items = <<"-m", "my_module">> =>
                        form'.args = "[\"-m\",\"my_module\"]"
             ELSE form' = FormData("", "", "sse", "", "", "", FALSE, FALSE, <<>>) ]_vars

\* after a submission closed the dialog, it has been opened again in edit
\* mode on a record that has a header: the fields are the record's and there
\* is no header row
C13_Witness ==
    /\ handleFormSubmitResult = "fulfilled"
    /\ isOpen
    /\ mode = "edit"
    /\ formServer.present
    /\ formServer.headers = <<Header("Authorization", "Bearer token123")>>
    /\ form.name = "web"
    /\ form.url = "https://mcp.example.com/mcp"
    /\ form.headers = <<>>
    /\ ~showHeaders

(***************************************************************************)
(* Properties of ToolsExplorer, continued.                                 *)
(***************************************************************************)
ToolNames == { t.name : t \in ToolPool }

\* the tools whose schema panel the explorer shows in view mode vm
ExpandedIn(vm) ==
    { p.name : p \in
        RenderTools(toolsServer, searchTerm, vm, expandedTool, filterStatus).schemaPanels }

\* C14: on a given server record, after any toggles, searches, filter changes
\* and view-mode switches, expandedTool is none or one tool name; a toggle of
\* tool t makes it t when it was anything else and none when it was t; no
\* other step changes it, a view-mode switch in particular; and the tool
\* whose schema panel is shown is the same in grid and in list view: the
\* expanded tool when it passes the search and the filter, none otherwise.
C14_SharedExpansion ==
    /\ [](expandedTool \in {NoTool} \cup ToolNames)
    /\ [](/\ ExpandedIn("grid") = ExpandedIn("list")
          /\ { p.name : p \in toolsView.schemaPanels } = ExpandedIn(viewMode)
          /\ ExpandedIn(viewMode) =
                { toolsView.shown[i].name : i \in 1..Len(toolsView.shown) }
                   \cap {expandedTool})
    /\ [][ /\ ClickViewSchema =>
                \E t \in toolsView.schemaButtons :
                    expandedTool' = (IF expandedTool = t THEN NoTool ELSE t)
           /\ expandedTool' # expandedTool =>
                /\ <<viewMode', searchTerm', filterStatus'>> =
                      <<viewMode, searchTerm, filterStatus>>
                /\ \/ expandedTool' \in toolsView.schemaButtons
                   \/ expandedTool' = NoTool /\ expandedTool \in toolsView.schemaButtons
           /\ viewMode' # viewMode =>
                /\ expandedTool' = expandedTool
                /\ { p.name : p \in toolsView'.schemaPanels } =
                      { p.name : p \in toolsView.schemaPanels } ]_vars

\* GetUser was expanded in grid view, the view was switched to list, and its
\* schema panel is shown there as it would be in grid view
C14_Witness ==
    /\ viewMode = "list"
    /\ expandedTool = S_GetUser
    /\ { p.name : p \in toolsView.schemaPanels } = {S_GetUser}
    /\ ExpandedIn("grid") = {S_GetUser}
    /\ Len(toolsView.shown) = 2

\* the text of a string schema does not parse as JSON
Unparseable(schema) == schema.kind = "string" /\ ~JSONparse(schema.chars).ok

\* C15: every tool that passes the search and the filter is listed; a listed
\* tool's structured schema is shown as it is and its string schema as the
\* value its JSON text denotes; and for a listed tool whose string schema does
\* not parse, neither the View Schema button nor a schema panel is rendered,
\* in grid view and in list view.
C15_BadSchemaShowsNothing ==
    toolsView.kind = "explorer" =>
        /\ toolsView.shown =
              filteredTools(toolsOf(toolsServer), searchTerm, filterStatus)
        /\ \A i \in 1..Len(toolsView.shown) :
              LET tool == toolsView.shown[i]
              IN  /\ \A p \in toolsView.schemaPanels :
                        (p.name = tool.name /\ tool.schema.kind = "object") =>
                            p.schema = tool.schema
                  /\ \A p \in toolsView.schemaPanels :
                        (p.name = tool.name /\ tool.schema = JsString(S_schema_json)) =>
                            p.schema = ObjectSchema
                  /\ Unparseable(tool.schema) =>
                        /\ tool.name \notin toolsView.schemaButtons
                        /\ \A p \in toolsView.schemaPanels : p.name # tool.name

(***************************************************************************)
(* Properties of ServerManagement, continued.                              *)
(***************************************************************************)
\* the performAction calls of this panel whose promise has not settled
PendingCalls == { i \in 1..Len(calls) : calls[i].state = "pending" }

\* C16: in every reachable state, a pending performAction call of the panel
\* has the marker set to its action; a set marker belongs to a call of the
\* panel that is pending or whose continuation is due (it runs before the
\* user can act again), so whenever the user can act the marker is set iff a
\* call is pending; and a step that clears the marker leaves no call pending.
C16_MarkerTracksCall ==
    /\ [](/\ \A i \in PendingCalls : loading = calls[i].action
          /\ loading # NULL => \E i \in 1..Len(calls) : calls[i].action = loading
          /\ ~MicrotaskReady => (loading # NULL <=> PendingCalls # {}))
    /\ [][ (loading # NULL /\ loading' = NULL) =>
             /\ { i \in 1..Len(calls') : calls'[i].state = "pending" } = {}
             /\ \E i \in 1..Len(calls) :
                    calls[i].state # "pending" /\ calls' = RemoveAt(calls, i) ]_vars

\* after an earlier action completed and cleared the marker, a deactivate
\* call is pending and the marker names it
C16_Witness ==
    /\ handleActionResult = "fulfilled"
    /\ calls = <<[action |-> "deactivate", state |-> "pending", value |-> NoValue]>>
    /\ loading = "deactivate"

\* the last performAction call the panel started
LastCall(cs) == cs[Len(cs)]

\* C17: for every connectionStatus and every marker value, the primary
\* button carries deactivate when the status is connected, in any letter
\* case, and activate otherwise, and is disabled iff an action is in flight;
\* the activate/deactivate entry of the menu carries the other action and is
\* disabled in every reachable state; so the only action a menu entry ever
\* starts is restart, and activate and deactivate start from the primary
\* button only.
C17_MenuToggleNeverEnabled ==
    /\ [](/\ view.primaryAction =
                (IF IsStatus(mgmtStatus, S_CONNECTED) THEN "deactivate" ELSE "activate")
          /\ view.primaryDisabled <=> loading # NULL
          /\ view.menuToggleAction =
                (IF IsStatus(mgmtStatus, S_CONNECTED) THEN "activate" ELSE "deactivate")
          /\ view.menuToggleAction # view.primaryAction
          /\ view.menuToggleDisabled
          /\ view.restartDisabled <=> loading # NULL)
    /\ [][ Len(calls') > Len(calls) =>
             IF menuOpen
             THEN LastCall(calls').action = "restart"
             ELSE LastCall(calls').action = view.primaryAction ]_vars

\* the menu is open on a disconnected server: its Deactivate entry is
\* disabled while Restart and the primary Activate button are enabled
C17_Witness ==
    /\ menuOpen
    /\ mgmtStatus = S_DISCONNECTED
    /\ view.primaryAction = "activate"
    /\ ~view.primaryDisabled
    /\ view.menuToggleAction = "deactivate"
    /\ view.menuToggleDisabled
    /\ ~view.restartDisabled

(***************************************************************************)
(* Properties of ServerFormModal: the transport selection.                 *)
(***************************************************************************)
FormFields ==
    { "name", "description", "transport", "url", "command", "args",
      "requiresOauth", "isPublic", "headers" }

\* C18: a change of the transport selection changes the transport value and
\* the sub-form shown and nothing else: url, command, args and the header
\* rows (and every other value, and the headers disclosure) stay as they
\* were; and the data a submission passes to persist is the whole form, with
\* all its fields, whatever the transport.
C18_TransportSwitchKeepsFields ==
    /\ [][ SelectTransport =>
             /\ form'.transport # form.transport
             /\ transportType' = form'.transport
             /\ form'.url = form.url
             /\ form'.command = form.command
             /\ form'.args = form.args
             /\ form'.headers = form.headers
             /\ \A f \in FormFields \ {"transport"} : form'[f] = form[f]
             /\ showHeaders' = showHeaders ]_vars
    /\ [][ (submit.state = "none" /\ submit'.state = "pending") =>
             /\ formCalls' = <<Call("onSubmit", <<form>>)>>
             /\ DOMAIN form = FormFields ]_vars

\* after a switch from sse to stdio, a submission has passed persist a url
\* and a header row together with transport stdio
C18_Witness ==
    /\ submit.state = "pending"
    /\ Len(formCalls) = 1
    /\ formCalls[1].fn = "onSubmit"
    /\ formCalls[1].arg[1].transport = "stdio"
    /\ formCalls[1].arg[1].url = "https://mcp.example.com/mcp"
    /\ formCalls[1].arg[1].headers = <<Header("Authorization", "Bearer token123")>>
    /\ formCalls[1].arg[1].command = ""

=============================================================================
